---- MODULE Spec2Model ----
(***************************************************************************)
(* The API client wrapper of the mediConnect browser client               *)
(* (services/api.js: the axios instance `api`, its request interceptor    *)
(* and its response interceptor), together with the persisted session    *)
(* store (hooks/storage.js) and the AuthContext operations that write it  *)
(* (context/AuthContext.jsx), and the pages whose handlers the session     *)
(* and the wrapper meet: the login page, the profile page, the symptom     *)
(* checker and the chatbot.                                                *)
(*                                                                         *)
(* One behaviour of the model is one lifetime of the page: the single     *)
(* JavaScript thread runs one handler to completion per step.  Assigning  *)
(* window.location.href starts a document navigation; the running page    *)
(* keeps its pathname until the document is replaced, so the model        *)
(* records the assignment with the step that made it and leaves pathname  *)
(* alone.  Router navigation (navigate(...), links) changes pathname at   *)
(* once.                                                                   *)
(***************************************************************************)
EXTENDS Integers, Sequences, FiniteSets, TLC

(***************************************************************************)
(* Bounds of the model.                                                    *)
(***************************************************************************)
\* number of logical calls issued through the wrapper in one page lifetime
NumCalls == 2

Calls == 1..NumCalls

\* number of analyses the symptom checker starts in one page lifetime
MaxAnalyses == 3

Analyses == 1..MaxAnalyses

\* number of messages the user sends to the chatbot in one page lifetime
MaxSends == 2

Sends == 1..MaxSends

(***************************************************************************)
(* JavaScript values.                                                      *)
(***************************************************************************)
\* the result of localStorage.getItem: null (None) or a stored value
None == <<>>
Some(x) == <<x>>

\* a JavaScript value as far as `||`, `?.` and typeof look at it
Undefined == [t |-> "undefined", s |-> "", n |-> 0]
Null == [t |-> "null", s |-> "", n |-> 0]
Str(x) == [t |-> "string", s |-> x, n |-> 0]
Num(k) == [t |-> "number", s |-> "", n |-> k]

\* ToBoolean
Truthy(v) ==
  CASE v.t = "string" -> v.s # ""
    [] v.t = "number" -> v.n # 0
    [] OTHER -> FALSE

\* a || b
OrElse(a, b) == IF Truthy(a) THEN a ELSE b

\* `Bearer ${token}`
Bearer(tok) == [scheme |-> "Bearer", credentials |-> tok]

(***************************************************************************)
(* Inputs.                                                                 *)
(***************************************************************************)
\* 'mock-jwt-token-for-demo-' + Date.now(): a token per login or registration
Tokens == {"tok1", "tok2"}
Roles == {"patient", "doctor"}
Emails == {"a@x.in"}
Languages == {"en", "hi"}
LoginPath == "/login"
Paths == {LoginPath, "/patient-dashboard", "/doctor-dashboard"}

\* response.data of a failed response: a JSON object with or without a
\* message, or the raw text of a body that is not JSON
Bodies ==
  { [t |-> "object", message |-> Str("jwt expired")],
    [t |-> "object", message |-> Num(42)],
    [t |-> "object", message |-> Str("")],
    [t |-> "object", message |-> Undefined],
    [t |-> "string", message |-> Undefined] }

OkBody == [t |-> "object", message |-> Undefined]

FailureStatuses == {400, 401, 403, 404, 500}

NoBody == [t |-> "undefined", message |-> Undefined]

\* what axios rejects with when no response arrived (timeout, DNS, refused):
\* an AxiosError, which carries the config of the request it was made for
TransportErrors ==
  { [response |-> None, message |-> Str("timeout of 10000ms exceeded"),
     code |-> Str("ECONNABORTED"), hasConfig |-> TRUE],
    [response |-> None, message |-> Str("Network Error"),
     code |-> Str("ERR_NETWORK"), hasConfig |-> TRUE] }

\* what reaches the response interceptor when preparing the request threw
\* before the transport was called (reading the store in the request
\* interceptor is refused, the body does not serialize): a plain exception
\* without response and without config, with or without a code of its own
ThrownErrors ==
  { [response |-> None, message |-> Str("The operation is insecure."),
     code |-> Num(18), hasConfig |-> FALSE],
    [response |-> None, message |-> Str("Converting circular structure to JSON"),
     code |-> Undefined, hasConfig |-> FALSE] }

\* what axios rejects with when the service answered with a failure status
HttpError(status, body) ==
  [response |-> Some([status |-> status, data |-> body]),
   message |-> Str("Request failed with status code"),
   code |-> Str("ERR_BAD_RESPONSE"), hasConfig |-> TRUE]

NoError ==
  [response |-> None, message |-> Undefined, code |-> Undefined, hasConfig |-> FALSE]

VARIABLES
  localStorage,   \* the persisted store: token, role, user data, language
  user,           \* AuthContext: the in-memory user (None when logged out)
  loading,        \* AuthContext: TRUE until checkAuth has run
  defaults,       \* api.defaults.headers.common.Authorization
  pathname,       \* window.location.pathname
  calls,          \* per logical call: phase, request config, attempts made
  navigations,    \* how often this page assigned window.location.href
  delivered,      \* what the step just taken handed to a caller, if anything,
                  \* and the location it assigned to window.location.href
  loginError,     \* pages/Login.jsx: the register-first error is shown
  wizard,         \* pages/SymptomChecker.jsx: the state of the wizard
  chat            \* pages/Chatbot.jsx: the message list and its requests

vars ==
  <<localStorage, user, loading, defaults, pathname, calls, navigations, delivered,
    loginError, wizard, chat>>

(***************************************************************************)
(* hooks/storage.js                                                        *)
(***************************************************************************)
getToken(ls) == ls.mediconnect_token
getUserRole(ls) == ls.mediconnect_role
\* JSON.parse of the stored text; the stored text is JSON.stringify of a
\* plain object of strings, which parses back to an equal object
getUserData(ls) == ls.mediconnect_user

setToken(ls, tok) == [ls EXCEPT !.mediconnect_token = Some(tok)]
setUserRole(ls, r) == [ls EXCEPT !.mediconnect_role = Some(r)]
setUserData(ls, u) == [ls EXCEPT !.mediconnect_user = Some(u)]
removeToken(ls) == [ls EXCEPT !.mediconnect_token = None]
removeUserRole(ls) == [ls EXCEPT !.mediconnect_role = None]
removeUserData(ls) == [ls EXCEPT !.mediconnect_user = None]

\* a clear that forgets the role and the user data
clearStorageTokenOnly(ls) == removeToken(ls)

clearStorage(ls) == removeUserData(removeUserRole(removeToken(ls)))

\* if (token): a stored non-empty string
TokenPresent(ls) == getToken(ls) # None /\ getToken(ls)[1] # ""


(***************************************************************************)
(* services/api.js                                                         *)
(***************************************************************************)
\* the config of a call before axios and the interceptors have touched it:
\* doctorAPI.getAllDoctors, api.get('/doctors')
NewConfig ==
  [method |-> "get", url |-> "/doctors", data |-> None,
   headers |-> [Authorization |-> None, AcceptLanguage |-> None],
   isRetry |-> FALSE]

\* doctorAPI.bookAppointment(payload), api.post('/appointments/book', data)
BookingConfig ==
  [NewConfig EXCEPT !.method = "post", !.url = "/appointments/book",
                    !.data = Some("payload")]

\* axios merges the instance defaults under the headers the config brings
MergeDefaults(config, defaultAuth) ==
  [config EXCEPT !.headers.Authorization = IF @ # None THEN @ ELSE defaultAuth]

\* localStorage.getItem('mediconnect_language') || 'en'
Language(ls) ==
  IF ls.mediconnect_language # None /\ ls.mediconnect_language[1] # ""
    THEN ls.mediconnect_language[1]
    ELSE "en"

\* a request interceptor that keeps an Authorization header already there
RequestInterceptorKeepsHeader(config, ls) ==
  LET withAuth ==
        IF TokenPresent(ls) /\ config.headers.Authorization = None
          THEN [config EXCEPT !.headers.Authorization = Some(Bearer(getToken(ls)[1]))]
          ELSE config
  IN [withAuth EXCEPT !.headers.AcceptLanguage = Some(Language(ls))]

\* a request interceptor that sets the language only for a signed-in user
RequestInterceptorLanguageWithToken(config, ls) ==
  IF TokenPresent(ls)
    THEN [config EXCEPT !.headers.Authorization = Some(Bearer(getToken(ls)[1])),
                        !.headers.AcceptLanguage = Some(Language(ls))]
    ELSE config

\* api.interceptors.request.use: the token and the language of this moment
RequestInterceptor(config, ls) ==
  LET withAuth ==
        IF TokenPresent(ls)
          THEN [config EXCEPT !.headers.Authorization = Some(Bearer(getToken(ls)[1]))]
          ELSE config
  IN [withAuth EXCEPT !.headers.AcceptLanguage = Some(Language(ls))]

\* a dispatch that sends a retried config as it is
DispatchRetryAsIs(c, config) ==
  calls' = [calls EXCEPT
              ![c].phase = "inflight",
              ![c].config = IF config.isRetry
                              THEN config
                              ELSE RequestInterceptor(MergeDefaults(config, defaults),
                                                      localStorage),
              ![c].attempts = @ + 1]

\* api(config): merge, run the request interceptor, hand to the transport
Dispatch(c, config) ==
  calls' = [calls EXCEPT
              ![c].phase = "inflight",
              ![c].config = RequestInterceptor(MergeDefaults(config, defaults), localStorage),
              ![c].attempts = @ + 1]

\* a retry test that forgets the flag
ShouldRetryIgnoringFlag(error, config) == error.response = None /\ error.hasConfig

\* a retry test that also retries a server error once
ShouldRetryServerError(error, config) ==
  /\ error.hasConfig
  /\ ~config.isRetry
  /\ error.response = None \/ error.response[1].status = 500

\* a retry test that lost its negation: it retries answered requests
ShouldRetryOnResponse(error, config) ==
  error.response # None /\ error.hasConfig /\ ~config.isRetry

\* a retry test that retries only requests that are safe to repeat
ShouldRetryIdempotentOnly(error, config) ==
  error.response = None /\ error.hasConfig /\ ~config.isRetry /\ config.method = "get"

\* !response && config && !config.__isRetry; config is error.config when the
\* error has one
ShouldRetry(error, config) ==
  error.response = None /\ error.hasConfig /\ ~config.isRetry

\* response.data?.message
DataMessage(data) == IF data.t = "object" THEN data.message ELSE Undefined

\* a rejection that always carries the generic text
HttpRejectionGenericMessage(response) ==
  [keys |-> {"status", "message", "data"},
   status |-> response.status,
   message |-> Str("An error occurred"),
   data |-> response.data,
   code |-> Undefined,
   originalError |-> NoError]

\* the rejection value of the branch taken when a response is present
HttpRejection(response) ==
  [keys |-> {"status", "message", "data"},
   status |-> response.status,
   message |-> OrElse(DataMessage(response.data), Str("An error occurred")),
   data |-> response.data,
   code |-> Undefined,
   originalError |-> NoError]

\* a rejection that reports no code
NetworkRejectionWithoutCode(error) ==
  [keys |-> {"status", "message", "code", "originalError"},
   status |-> 0,
   message |-> OrElse(error.message, Str("Network error. Please check your connection.")),
   data |-> NoBody,
   code |-> Null,
   originalError |-> error]

\* the rejection value of the branch taken when no response is present
NetworkRejection(error) ==
  [keys |-> {"status", "message", "code", "originalError"},
   status |-> 0,
   message |-> OrElse(error.message, Str("Network error. Please check your connection.")),
   data |-> NoBody,
   code |-> OrElse(error.code, Null),
   originalError |-> error]

NoRejection ==
  [keys |-> {}, status |-> 0, message |-> Undefined, data |-> NoBody,
   code |-> Undefined, originalError |-> NoError]

\* what a step hands to the caller of call c: the settled promise's value;
\* cause is the transport's outcome that the interceptor was run with,
\* attempts and outcomes are the call's record at the moment it settles
NoDelivery ==
  [call |-> 0, kind |-> "none", response |-> None, error |-> NoRejection,
   cause |-> NoError, attempts |-> 0, outcomes |-> <<>>, href |-> None]
Resolved(c, response) ==
  [NoDelivery EXCEPT !.call = c, !.kind = "resolved", !.response = Some(response)]
Rejected(c, rejection) ==
  [NoDelivery EXCEPT !.call = c, !.kind = "rejected", !.error = rejection]

\* what the transport hands to the first handler: the response alone
Success(response) ==
  [response |-> Some(response), message |-> Undefined, code |-> Undefined,
   hasConfig |-> TRUE]

\* how an attempt ended, for the record of the call's attempts
OutcomeOf(result) ==
  IF result.response = None
    THEN IF result.hasConfig THEN "transport" ELSE "thrown"
  ELSE IF result.response[1].status \in FailureStatuses THEN "http"
  ELSE "ok"

\* a status switch that treats 403 as 401
StatusSwitchAlso403(status, ls, path) ==
  IF status \in {401, 403}
    THEN [store |-> clearStorage(ls),
          href |-> IF path # LoginPath THEN Some(LoginPath) ELSE None]
    ELSE [store |-> ls, href |-> None]

\* a status switch whose 401 case does nothing once the token is gone
StatusSwitchOncePerSession(status, ls, path) ==
  IF status = 401 /\ TokenPresent(ls)
    THEN [store |-> clearStorage(ls),
          href |-> IF path # LoginPath THEN Some(LoginPath) ELSE None]
    ELSE [store |-> ls, href |-> None]

\* the status switch: 401 clears the store and sends the page to the login
\* view unless it is there; the other cases log
StatusSwitch(status, ls, path) ==
  IF status = 401
    THEN [store |-> clearStorage(ls),
          href |-> IF path # LoginPath THEN Some(LoginPath) ELSE None]
    ELSE [store |-> ls, href |-> None]

(***************************************************************************)
(* pages/Profile.jsx as a caller of the wrapper, with the part of          *)
(* AuthContext it calls.  User objects are followed by their email and     *)
(* their role.                                                             *)
(***************************************************************************)
ProfilePath == "/user/profile"

\* the role of a user object that has no role property
Absent == "undefined"

\* the profile the page holds: the mock profile has no role, a profile the
\* service sent may have one
ProfileInputs ==
  { [email |-> email, role |-> r] : email \in Emails, r \in Roles \cup {Absent} }

\* userAPI.updateProfile(profileData), api.put('/user/profile', data)
ProfileConfig(profileData) ==
  [NewConfig EXCEPT !.method = "put", !.url = ProfilePath, !.data = Some(profileData)]

\* { ...prev, ...updatedData }; prev is null or {} when there is none
Spread(prev, updatedData) ==
  [email |-> updatedData.email,
   role |-> IF updatedData.role # Absent THEN updatedData.role
            ELSE IF prev # None THEN prev[1].role
            ELSE Absent]

\* AuthContext updateUserProfile(updatedData): setUser(prev => ...) and
\* the stored user data, read with || '{}'
updateUserProfile(ls, u, updatedData) ==
  [store |-> setUserData(ls, Spread(getUserData(ls), updatedData)),
   user |-> Some(Spread(u, updatedData))]

\* error?.status === 0 || error?.code === 'ERR_NETWORK' ||
\* error?.originalError?.code === 'ERR_NETWORK' || error?.message === 'Network Error'
isNetworkError(error) ==
  \/ "status" \in error.keys /\ error.status = 0
  \/ error.code = Str("ERR_NETWORK")
  \/ error.originalError.code = Str("ERR_NETWORK")
  \/ error.message = Str("Network Error")

\* handleSaveProfile after its await: on success and on a network error
\* updateUserProfile(profileData), then setUserData of the same merge, which
\* writes the same text again; the body of the success response carries no
\* email and no role, so merging it changes neither; any other rejection
\* is shown in an alert
handleSaveProfile(delivery, profileData, ls, u) ==
  IF delivery.kind = "resolved" \/ isNetworkError(delivery.error)
    THEN updateUserProfile(ls, u, profileData)
    ELSE [store |-> ls, user |-> u]

\* the code after the await of the caller of call c, run on the store the
\* response interceptor leaves: the profile page's, or none that touches
\* the session
Continuation(c, delivery, ls) ==
  LET after == IF calls[c].config.url = ProfilePath
                 THEN handleSaveProfile(delivery, calls[c].config.data[1], ls, user)
                 ELSE [store |-> ls, user |-> user]
  IN /\ localStorage' = after.store
     /\ user' = after.user

\* a call whose promise has settled: its config and counters are garbage
DoneCall == [phase |-> "done", config |-> NewConfig, attempts |-> 0, outcomes |-> <<>>]

\* the call is over: its promise settles and the caller's continuation runs
Settle(c, result, delivery) ==
  /\ calls' = [calls EXCEPT ![c] = DoneCall]
  /\ delivered' = [delivery EXCEPT !.cause = result,
                                   !.attempts = calls[c].attempts,
                                   !.outcomes = Append(calls[c].outcomes, OutcomeOf(result))]

\* a retry branch that schedules the retry and leaves the flag unset
RetryBranchWithoutMark(c, error) ==
  /\ calls' = [calls EXCEPT ![c].phase = "delay",
                            ![c].outcomes = Append(@, OutcomeOf(error))]
  /\ delivered' = NoDelivery
  /\ UNCHANGED <<localStorage, user, navigations>>

\* a retry branch that marks the config and calls api(config) at once
RetryBranchImmediate(c, error) ==
  /\ calls' = [calls EXCEPT
                 ![c].config = RequestInterceptor(
                                 MergeDefaults([@ EXCEPT !.isRetry = TRUE], defaults),
                                 localStorage),
                 ![c].attempts = @ + 1,
                 ![c].outcomes = Append(@, OutcomeOf(error))]
  /\ delivered' = NoDelivery
  /\ UNCHANGED <<localStorage, user, navigations>>

\* config.__isRetry = true; the promise of the delay, then api(config)
RetryBranch(c, error) ==
  /\ calls' = [calls EXCEPT ![c].config.isRetry = TRUE,
                            ![c].phase = "delay",
                            ![c].outcomes = Append(@, OutcomeOf(error))]
  /\ delivered' = NoDelivery
  /\ UNCHANGED <<localStorage, user, navigations>>

\* a response branch that runs the status switch for first attempts only
ResponseBranchFirstAttemptOnly(c, error) ==
  LET effects == IF calls[c].config.isRetry
                   THEN [store |-> localStorage, href |-> None]
                   ELSE StatusSwitch(error.response[1].status, localStorage, pathname)
  IN /\ localStorage' = effects.store
     /\ UNCHANGED user
     /\ navigations' = IF effects.href # None THEN navigations + 1 ELSE navigations
     /\ Settle(c, error, [Rejected(c, HttpRejection(error.response[1]))
                            EXCEPT !.href = effects.href])

\* a response branch that rejects first and leaves the switch for later
ResponseBranchRejectsFirst(c, error) ==
  /\ UNCHANGED <<localStorage, user, navigations>>
  /\ Settle(c, error, Rejected(c, HttpRejection(error.response[1])))

\* if (response): the status switch, then the structured rejection; the
\* caller's continuation runs in the microtask checkpoint of the same task,
\* before any other handler of the page
ResponseBranch(c, error) ==
  LET effects == StatusSwitch(error.response[1].status, localStorage, pathname)
  IN /\ Continuation(c, Rejected(c, HttpRejection(error.response[1])), effects.store)
     /\ navigations' = IF effects.href # None THEN navigations + 1 ELSE navigations
     /\ Settle(c, error, [Rejected(c, HttpRejection(error.response[1]))
                            EXCEPT !.href = effects.href])

\* a no-response branch whose promise never settles
NoResponseBranchSwallows(c, error) ==
  /\ calls' = [calls EXCEPT ![c].phase = "pending",
                            ![c].outcomes = Append(@, OutcomeOf(error))]
  /\ delivered' = NoDelivery
  /\ UNCHANGED <<localStorage, user, navigations>>

\* else: no response, after the retry
NoResponseBranch(c, error) ==
  /\ Settle(c, error, Rejected(c, NetworkRejection(error)))
  /\ Continuation(c, Rejected(c, NetworkRejection(error)), localStorage)
  /\ UNCHANGED navigations

\* api.interceptors.response.use, second handler
OnRejected(c, error) ==
  IF ShouldRetry(error, calls[c].config)
    THEN RetryBranch(c, error)
    ELSE IF error.response # None
      THEN ResponseBranch(c, error)
      ELSE NoResponseBranch(c, error)

\* a first handler that unwraps the response: return response.data
OnFulfilledUnwraps(c, response) ==
  /\ Settle(c, Success(response), Resolved(c, response.data))
  /\ UNCHANGED <<localStorage, user, navigations>>

\* api.interceptors.response.use, first handler
OnFulfilled(c, response) ==
  /\ Settle(c, Success(response), Resolved(c, response))
  /\ Continuation(c, Resolved(c, response), localStorage)
  /\ UNCHANGED navigations

(***************************************************************************)
(* context/AuthContext.jsx                                                 *)
(***************************************************************************)
\* the user object login and register persist and keep in memory
UserOf(email, r) == [email |-> email, role |-> r]

\* a logout that forgets to remove the role
logoutKeepsRole ==
  /\ localStorage' = removeUserData(removeToken(localStorage))
  /\ user' = None
  /\ defaults' = None
  /\ pathname' = LoginPath

\* logout(): the three keys, the in-memory user, the default header, the view
logout ==
  /\ localStorage' = removeUserData(removeUserRole(removeToken(localStorage)))
  /\ user' = None
  /\ defaults' = None
  /\ pathname' = LoginPath

\* a login that leaves the role key of the store as it finds it
StartSessionWithoutRole(email, r, tok) ==
  /\ localStorage' = setUserData(setToken(localStorage, tok), UserOf(email, r))
  /\ user' = Some(UserOf(email, r))
  /\ defaults' = Some(Bearer(tok))
  /\ pathname' = IF r = "patient" THEN "/patient-dashboard" ELSE "/doctor-dashboard"

\* login(email, password, role) and register(userData) after the mock response
StartSession(email, r, tok) ==
  /\ localStorage' = setUserData(setUserRole(setToken(localStorage, tok), r), UserOf(email, r))
  /\ user' = Some(UserOf(email, r))
  /\ defaults' = Some(Bearer(tok))
  /\ pathname' = IF r = "patient" THEN "/patient-dashboard" ELSE "/doctor-dashboard"

\* a checkAuth that gives up the session as soon as the token does not decode
CheckAuthWithoutRecovery ==
  /\ loading
  /\ loading' = FALSE
  /\ IF TokenPresent(localStorage)
       THEN logout
       ELSE UNCHANGED <<localStorage, user, defaults, pathname>>
  /\ delivered' = NoDelivery
  /\ UNCHANGED <<calls, navigations>>
  /\ UNCHANGED <<loginError, wizard, chat>>

\* checkAuth() on mount; the tokens this client stores are mock tokens, which
\* jwtDecode rejects, so the catch branch decides
CheckAuth ==
  /\ loading
  /\ loading' = FALSE
  /\ IF TokenPresent(localStorage)
       THEN IF getUserData(localStorage) # None
              THEN /\ user' = Some([email |-> getUserData(localStorage)[1].email,
                                    role |-> IF getUserRole(localStorage) # None
                                               THEN getUserRole(localStorage)[1]
                                               ELSE getUserData(localStorage)[1].role])
                   /\ defaults' = Some(Bearer(getToken(localStorage)[1]))
                   /\ UNCHANGED <<localStorage, pathname>>
              ELSE logout
       ELSE UNCHANGED <<localStorage, user, defaults, pathname>>
  /\ delivered' = NoDelivery
  /\ UNCHANGED <<calls, navigations>>
  /\ UNCHANGED <<loginError, wizard, chat>>

\* pages/Login.jsx onSubmit: only a stored user with this email and role logs in
Login ==
  /\ ~loading
  /\ \E email \in Emails, r \in Roles, tok \in Tokens :
       /\ getUserData(localStorage) # None
       /\ getUserData(localStorage)[1].email = email
       /\ getUserData(localStorage)[1].role = r
       /\ StartSession(email, r, tok)
  /\ delivered' = NoDelivery
  /\ UNCHANGED <<loading, calls, navigations>>
  /\ loginError' = FALSE
  /\ UNCHANGED <<wizard, chat>>

\* what the user can type into the login form
SubmittedEmails == Emails \cup {"b@x.in"}

\* pages/Login.jsx onSubmit, the other branch: the register-first error
LoginRefused ==
  /\ ~loading
  /\ \E email \in SubmittedEmails, r \in Roles :
       ~ /\ getUserData(localStorage) # None
         /\ getUserData(localStorage)[1].email = email
         /\ getUserData(localStorage)[1].role = r
  /\ loginError' = TRUE
  /\ delivered' = NoDelivery
  /\ UNCHANGED <<localStorage, user, loading, defaults, pathname, calls, navigations>>
  /\ UNCHANGED <<wizard, chat>>

\* components/auth/Register.jsx onSubmit
Register ==
  /\ ~loading
  /\ \E email \in Emails, r \in Roles, tok \in Tokens : StartSession(email, r, tok)
  /\ delivered' = NoDelivery
  /\ UNCHANGED <<loading, calls, navigations>>
  /\ UNCHANGED <<loginError, wizard, chat>>

\* Navbar handleLogout
Logout ==
  /\ ~loading
  /\ logout
  /\ delivered' = NoDelivery
  /\ UNCHANGED <<loading, calls, navigations>>
  /\ UNCHANGED <<loginError, wizard, chat>>

\* Navbar toggleLanguage
ToggleLanguage ==
  /\ ~loading
  /\ \E newLang \in Languages :
       /\ Some(newLang) # localStorage.mediconnect_language
       /\ localStorage' = [localStorage EXCEPT !.mediconnect_language = Some(newLang)]
  /\ delivered' = NoDelivery
  /\ UNCHANGED <<user, loading, defaults, pathname, calls, navigations>>
  /\ UNCHANGED <<loginError, wizard, chat>>

\* a link or the history changes the view without loading a document
Navigate ==
  /\ ~loading
  /\ \E p \in Paths : p # pathname /\ pathname' = p
  /\ delivered' = NoDelivery
  /\ UNCHANGED <<localStorage, user, loading, defaults, calls, navigations>>
  /\ UNCHANGED <<loginError, wizard, chat>>

(***************************************************************************)
(* The steps of a logical call.                                            *)
(***************************************************************************)
\* a page calls api.get / api.post / ...
Request(c) ==
  /\ ~loading
  /\ calls[c].phase = "idle"
  /\ \A b \in Calls : b < c => calls[b].phase # "idle"
  /\ Dispatch(c, NewConfig)
  /\ delivered' = NoDelivery
  /\ UNCHANGED <<localStorage, user, loading, defaults, pathname, navigations>>
  /\ UNCHANGED <<loginError, wizard, chat>>

\* the service answers 2xx
ResponseOk(c) ==
  /\ calls[c].phase = "inflight"
  /\ OnFulfilled(c, [status |-> 200, data |-> OkBody])
  /\ UNCHANGED <<loading, defaults, pathname>>
  /\ UNCHANGED <<loginError, wizard, chat>>

\* the service answers with a failure status
ResponseFailure(c) ==
  /\ calls[c].phase = "inflight"
  /\ \E status \in FailureStatuses, body \in Bodies : OnRejected(c, HttpError(status, body))
  /\ UNCHANGED <<loading, defaults, pathname>>
  /\ UNCHANGED <<loginError, wizard, chat>>

\* the attempt ends without a response
TransportFailure(c) ==
  /\ calls[c].phase = "inflight"
  /\ \E error \in TransportErrors : OnRejected(c, error)
  /\ UNCHANGED <<loading, defaults, pathname>>
  /\ UNCHANGED <<loginError, wizard, chat>>

\* the Save button of the profile page, shown to a signed-in user and
\* disabled while a save is in progress
SaveProfile(c) ==
  /\ ~loading
  /\ user # None
  /\ calls[c].phase = "idle"
  /\ \A b \in Calls : b < c => calls[b].phase # "idle"
  /\ \A b \in Calls : calls[b].phase \in {"inflight", "delay"}
                         => calls[b].config.url # ProfilePath
  /\ \E profileData \in ProfileInputs : Dispatch(c, ProfileConfig(profileData))
  /\ delivered' = NoDelivery
  /\ UNCHANGED <<localStorage, user, loading, defaults, pathname, navigations>>
  /\ UNCHANGED <<loginError, wizard, chat>>

\* the booking dialog of the doctor list submits an appointment
Book(c) ==
  /\ ~loading
  /\ calls[c].phase = "idle"
  /\ \A b \in Calls : b < c => calls[b].phase # "idle"
  /\ Dispatch(c, BookingConfig)
  /\ delivered' = NoDelivery
  /\ UNCHANGED <<localStorage, user, loading, defaults, pathname, navigations>>
  /\ UNCHANGED <<loginError, wizard, chat>>

\* a page calls the wrapper, or the retry timer fires, and preparing the
\* request throws: no attempt reaches the transport, and the exception goes
\* to the second handler of the response interceptor
RequestThrows(c) ==
  /\ ~loading
  /\ \/ calls[c].phase = "idle" /\ \A b \in Calls : b < c => calls[b].phase # "idle"
     \/ calls[c].phase = "delay"
  /\ \E error \in ThrownErrors : OnRejected(c, error)
  /\ UNCHANGED <<loading, defaults, pathname>>
  /\ UNCHANGED <<loginError, wizard, chat>>

\* setTimeout(resolve, 1000) fires: .then(() => api(config))
RetryTimer(c) ==
  /\ calls[c].phase = "delay"
  /\ Dispatch(c, calls[c].config)
  /\ delivered' = NoDelivery
  /\ UNCHANGED <<localStorage, user, loading, defaults, pathname, navigations>>
  /\ UNCHANGED <<loginError, wizard, chat>>

(***************************************************************************)
(* pages/SymptomChecker.jsx                                                *)
(*                                                                         *)
(* The wizard keeps its state in the component; its one request goes       *)
(* through the wrapper, and the wizard only sees whether the promise the   *)
(* wrapper returned resolved or rejected.                                  *)
(***************************************************************************)
\* the steps of a page component leave the session and the wrapper alone
SessionUnchanged ==
  /\ delivered' = NoDelivery
  /\ UNCHANGED <<localStorage, user, loading, defaults, pathname, calls,
                 navigations, loginError>>

Symptoms == {"fever", "chest_pain"}

IdleAnalysis == [phase |-> "idle", symptoms |-> {}]

\* useState(1), useState([]), useState(null), useState(false); the selection
\* is a list without repetitions, whose order no handler looks at; analyses
\* are the calls of analyzeSymptoms with the symptoms each one sent; pressed
\* records which of Analyze, Back and New check the user pressed last
InitWizard ==
  [step |-> 1, selectedSymptoms |-> {}, analysisResult |-> None,
   isAnalyzing |-> FALSE, analyses |-> [a \in Analyses |-> IdleAnalysis],
   pressed |-> "none"]

\* toggleSymptom(symptomId)
toggleSymptom(w, symptomId) ==
  [w EXCEPT !.selectedSymptoms = IF symptomId \in @ THEN @ \ {symptomId}
                                                    ELSE @ \cup {symptomId}]

\* the symptom buttons of step 1 and the remove buttons of step 2
ToggleSymptom ==
  /\ \E symptomId \in Symptoms :
       /\ \/ wizard.step = 1
          \/ wizard.step = 2 /\ symptomId \in wizard.selectedSymptoms
       /\ wizard' = toggleSymptom(wizard, symptomId)
  /\ UNCHANGED chat
  /\ SessionUnchanged

\* the analysis that the next call of analyzeSymptoms starts
NextAnalysis(w) == CHOOSE a \in Analyses :
                     /\ w.analyses[a].phase = "idle"
                     /\ \A b \in Analyses : b < a => w.analyses[b].phase # "idle"

\* an analyzeSymptoms that sends whatever is selected
analyzeSymptomsUnchecked(w) ==
  [w EXCEPT !.isAnalyzing = TRUE,
            !.analyses[NextAnalysis(w)] =
               [phase |-> "request", symptoms |-> w.selectedSymptoms],
            !.pressed = "analyze"]

\* analyzeSymptoms() up to its await: the alert, or the request is sent
analyzeSymptoms(w) ==
  IF w.selectedSymptoms = {}
    THEN w
    ELSE [w EXCEPT !.isAnalyzing = TRUE,
                   !.analyses[NextAnalysis(w)] =
                      [phase |-> "request", symptoms |-> w.selectedSymptoms],
                   !.pressed = "analyze"]

\* the navigation button: Continue on step 1, Analyze on step 2
NextButton ==
  /\ wizard.step < 3
  /\ ~wizard.isAnalyzing
  /\ IF wizard.step = 1
       THEN wizard' = IF wizard.selectedSymptoms # {}
                        THEN [wizard EXCEPT !.step = 2]
                        ELSE wizard
       ELSE /\ \E a \in Analyses : wizard.analyses[a].phase = "idle"
            /\ wizard' = analyzeSymptoms(wizard)
  /\ UNCHANGED chat
  /\ SessionUnchanged

\* the Back button: setStep(step - 1)
Back ==
  /\ wizard.step < 3
  /\ wizard.step > 1
  /\ wizard' = [wizard EXCEPT !.step = @ - 1, !.pressed = "back"]
  /\ UNCHANGED chat
  /\ SessionUnchanged

\* the New check button of step 3
NewCheck ==
  /\ wizard.step = 3
  /\ wizard' = [wizard EXCEPT !.step = 1, !.selectedSymptoms = {},
                              !.analysisResult = None, !.pressed = "newcheck"]
  /\ UNCHANGED chat
  /\ SessionUnchanged

\* the promise resolved: the result of the service, step 3, then finally
AnalysisResolves(a) ==
  /\ wizard.analyses[a].phase = "request"
  /\ wizard' = [wizard EXCEPT !.analysisResult = Some([analysis |-> a, mock |-> FALSE]),
                              !.step = 3,
                              !.isAnalyzing = FALSE,
                              !.analyses[a].phase = "done"]
  /\ UNCHANGED chat
  /\ SessionUnchanged

\* the promise rejected: catch starts the timer of the fallback, then finally
AnalysisRejects(a) ==
  /\ wizard.analyses[a].phase = "request"
  /\ wizard' = [wizard EXCEPT !.isAnalyzing = FALSE,
                              !.analyses[a].phase = "fallback"]
  /\ UNCHANGED chat
  /\ SessionUnchanged

\* setTimeout(..., 2000) of the catch fires: the mock result, step 3
FallbackTimer(a) ==
  /\ wizard.analyses[a].phase = "fallback"
  /\ wizard' = [wizard EXCEPT !.analysisResult = Some([analysis |-> a, mock |-> TRUE]),
                              !.step = 3,
                              !.isAnalyzing = FALSE,
                              !.analyses[a].phase = "done"]
  /\ UNCHANGED chat
  /\ SessionUnchanged

(***************************************************************************)
(* pages/Chatbot.jsx                                                       *)
(***************************************************************************)
\* what the user types or picks; the empty text is what the input holds
\* after a message was sent
Texts == {"", "I have a fever"}
Feedbacks == {"like", "dislike"}

Message(id, sender) == [id |-> id, sender |-> sender, feedback |-> None]

IdleSend == [phase |-> "idle", length |-> 0]

\* useState([welcome, howCanIHelp]), useState(false); sends are the calls of
\* sendMessage in progress, each with the messages.length of the render
\* whose sendMessage was called
InitChat ==
  [messages |-> <<Message(1, "bot"), Message(2, "bot")>>,
   isLoading |-> FALSE,
   sends |-> [s \in Sends |-> IdleSend]]

NextSend(ch) == CHOOSE s \in Sends :
                  /\ ch.sends[s].phase = "idle"
                  /\ \A b \in Sends : b < s => ch.sends[b].phase # "idle"

\* sendMessage(text) up to its await
sendMessage(ch, text) ==
  IF text = ""
    THEN ch
    ELSE [ch EXCEPT !.messages = Append(@, Message(Len(ch.messages) + 1, "user")),
                    !.isLoading = TRUE,
                    !.sends[NextSend(ch)] = [phase |-> "request",
                                             length |-> Len(ch.messages)]]

\* the send button, disabled while loading and for a blank text
SendButton ==
  /\ ~chat.isLoading
  /\ \E s \in Sends : chat.sends[s].phase = "idle"
  /\ \E text \in Texts : text # "" /\ chat' = sendMessage(chat, text)
  /\ UNCHANGED wizard
  /\ SessionUnchanged

\* handleQuickReply(reply): quick replies and suggestions; the Enter key of
\* the input and the voice input call sendMessage the same way
QuickReply ==
  /\ \E s \in Sends : chat.sends[s].phase = "idle"
  /\ \E text \in Texts : chat' = sendMessage(chat, text)
  /\ UNCHANGED wizard
  /\ SessionUnchanged

\* the answer of sendMessage s: its id counts from the list length this
\* sendMessage saw when it was called
BotMessage(ch, s) == Message(ch.sends[s].length + 2, "bot")

\* the promise resolved: the response of the bot, then finally
SendResolves(s) ==
  /\ chat.sends[s].phase = "request"
  /\ chat' = [chat EXCEPT !.messages = Append(@, BotMessage(chat, s)),
                          !.isLoading = FALSE,
                          !.sends[s].phase = "done"]
  /\ UNCHANGED wizard
  /\ SessionUnchanged

\* the promise rejected: the fallback response, then finally
SendRejects(s) ==
  /\ chat.sends[s].phase = "request"
  /\ chat' = [chat EXCEPT !.messages = Append(@, BotMessage(chat, s)),
                          !.isLoading = FALSE,
                          !.sends[s].phase = "done"]
  /\ UNCHANGED wizard
  /\ SessionUnchanged

\* handleFeedback(messageId, feedback)
handleFeedback(ch, messageId, feedback) ==
  [ch EXCEPT !.messages = [i \in DOMAIN @ |->
                             IF @[i].id = messageId
                               THEN [@[i] EXCEPT !.feedback = Some(feedback)]
                               ELSE @[i]]]

\* the like and dislike buttons under a message of the bot
Feedback ==
  /\ \E i \in DOMAIN chat.messages, feedback \in Feedbacks :
       /\ chat.messages[i].sender = "bot"
       /\ chat' = handleFeedback(chat, chat.messages[i].id, feedback)
  /\ UNCHANGED wizard
  /\ SessionUnchanged

(***************************************************************************)
(* The specification.                                                      *)
(***************************************************************************)
EmptyStore ==
  [mediconnect_token |-> None, mediconnect_role |-> None,
   mediconnect_user |-> None, mediconnect_language |-> None]

\* what an earlier page lifetime can have left in the store
StoredSessions ==
  {EmptyStore} \cup
  { setUserData(setUserRole(setToken(EmptyStore, tok), r), UserOf(email, r)) :
      tok \in Tokens, r \in Roles, email \in Emails }

IdleCall == [phase |-> "idle", config |-> NewConfig, attempts |-> 0, outcomes |-> <<>>]

\* a freshly loaded page whose store holds the language preference lang
InitWith(lang) ==
  /\ \E ls \in StoredSessions : localStorage = [ls EXCEPT !.mediconnect_language = lang]
  /\ user = None
  /\ loading = TRUE
  /\ defaults = None
  /\ pathname \in Paths
  /\ calls = [c \in Calls |-> IdleCall]
  /\ navigations = 0
  /\ delivered = NoDelivery
  /\ loginError = FALSE
  /\ wizard = InitWizard
  /\ chat = InitChat

\* the language preference was never set: the header falls back to 'en'
Init == InitWith(None)

Next ==
  \/ CheckAuth
  \/ Login
  \/ Register
  \/ Logout
  \/ Navigate
  \/ \E c \in Calls : Request(c)
  \/ \E c \in Calls : RequestThrows(c)
  \/ \E c \in Calls : ResponseOk(c)
  \/ \E c \in Calls : ResponseFailure(c)
  \/ \E c \in Calls : TransportFailure(c)
  \/ \E c \in Calls : RetryTimer(c)

Spec == Init /\ [][Next]_vars

\* every attempt ends within the request timeout and every retry delay
\* elapses: the transport and the timer are fair to each call
AttemptEnds(c) == ResponseOk(c) \/ ResponseFailure(c) \/ TransportFailure(c)

\* the calls of a page lifetime in which the session is only ever destroyed
NextCalls ==
  \/ CheckAuth
  \/ Logout
  \/ Navigate
  \/ \E c \in Calls : Request(c)
  \/ \E c \in Calls : ResponseOk(c)
  \/ \E c \in Calls : ResponseFailure(c)
  \/ \E c \in Calls : TransportFailure(c)
  \/ \E c \in Calls : RetryTimer(c)

FairSpec ==
  /\ Init
  /\ [][NextCalls]_vars
  /\ \A c \in Calls : WF_vars(AttemptEnds(c)) /\ WF_vars(RetryTimer(c))

\* the calls of a page whose language preference is set and toggled
InitLanguage == \E lang \in {None} \cup {Some(l) : l \in Languages} : InitWith(lang)

NextLanguage ==
  \/ CheckAuth
  \/ Register
  \/ ToggleLanguage
  \/ \E c \in Calls : Request(c)
  \/ \E c \in Calls : Book(c)
  \/ \E c \in Calls : ResponseOk(c)
  \/ \E c \in Calls : ResponseFailure(c)
  \/ \E c \in Calls : TransportFailure(c)
  \/ \E c \in Calls : RetryTimer(c)

SpecLanguage == InitLanguage /\ [][NextLanguage]_vars

\* the calls of the doctor list: the list is fetched, appointments are booked
NextBooking ==
  \/ CheckAuth
  \/ \E c \in Calls : Request(c)
  \/ \E c \in Calls : Book(c)
  \/ \E c \in Calls : ResponseOk(c)
  \/ \E c \in Calls : ResponseFailure(c)
  \/ \E c \in Calls : TransportFailure(c)
  \/ \E c \in Calls : RetryTimer(c)

SpecBooking == Init /\ [][NextBooking]_vars

\* the store as any earlier writer can have left it: the three session keys
\* are separate entries of the browser's storage, each present or absent
StoredKeys ==
  { [EmptyStore EXCEPT !.mediconnect_token = tok, !.mediconnect_role = r,
                       !.mediconnect_user = u] :
      tok \in {None} \cup {Some(t) : t \in Tokens},
      r \in {None} \cup {Some(x) : x \in Roles},
      u \in {None} \cup {Some(UserOf(email, x)) : email \in Emails, x \in Roles} }

\* the application starts on a store in any of these conditions
InitStartup ==
  /\ localStorage \in StoredKeys
  /\ user = None
  /\ loading = TRUE
  /\ defaults = None
  /\ pathname \in Paths
  /\ calls = [c \in Calls |-> IdleCall]
  /\ navigations = 0
  /\ delivered = NoDelivery
  /\ loginError = FALSE
  /\ wizard = InitWizard
  /\ chat = InitChat

NextStartup ==
  \/ CheckAuth
  \/ Navigate

SpecStartup == InitStartup /\ [][NextStartup]_vars

\* a page whose session checkAuth has restored, showing the view at path
InitPage(path) ==
  /\ \E tok \in Tokens, r \in Roles, email \in Emails :
       /\ localStorage = setUserData(setUserRole(setToken(EmptyStore, tok), r),
                                     UserOf(email, r))
       /\ user = Some(UserOf(email, r))
       /\ defaults = Some(Bearer(tok))
  /\ loading = FALSE
  /\ pathname = path
  /\ calls = [c \in Calls |-> IdleCall]
  /\ navigations = 0
  /\ delivered = NoDelivery
  /\ loginError = FALSE
  /\ wizard = InitWizard
  /\ chat = InitChat

\* the profile page, mounted under PrivateRoute, and the login page
NextProfile ==
  \/ Login
  \/ LoginRefused
  \/ Register
  \/ Logout
  \/ \E c \in Calls : SaveProfile(c)
  \/ \E c \in Calls : ResponseOk(c)
  \/ \E c \in Calls : ResponseFailure(c)
  \/ \E c \in Calls : TransportFailure(c)
  \/ \E c \in Calls : RetryTimer(c)

SpecProfile == InitPage("/profile") /\ [][NextProfile]_vars

\* the symptom checker, mounted under PrivateRoute
NextWizard ==
  \/ ToggleSymptom
  \/ NextButton
  \/ Back
  \/ NewCheck
  \/ \E a \in Analyses : AnalysisResolves(a)
  \/ \E a \in Analyses : AnalysisRejects(a)
  \/ \E a \in Analyses : FallbackTimer(a)

SpecWizard == InitPage("/symptom-checker") /\ [][NextWizard]_vars

\* the chatbot, mounted under PrivateRoute
NextChat ==
  \/ SendButton
  \/ QuickReply
  \/ \E s \in Sends : SendResolves(s)
  \/ \E s \in Sends : SendRejects(s)
  \/ Feedback

SpecChat == InitPage("/chatbot") /\ [][NextChat]_vars

TypeOK ==
  /\ loading \in BOOLEAN
  /\ loginError \in BOOLEAN
  /\ pathname \in Paths \cup {"/symptom-checker", "/chatbot", "/profile"}
  /\ wizard.step \in 1..3
  /\ wizard.selectedSymptoms \subseteq Symptoms
  /\ Len(chat.messages) <= 2 + 2 * MaxSends
  /\ delivered.call \in 0..NumCalls
  /\ navigations \in 0..NumCalls
  /\ \A c \in Calls : calls[c].phase \in {"idle", "inflight", "delay", "done"}

(***************************************************************************)
(* Properties of the wrapper.                                              *)
(***************************************************************************)
StoreCleared(ls) ==
  /\ ls.mediconnect_token = None
  /\ ls.mediconnect_role = None
  /\ ls.mediconnect_user = None

\* the status of the response the step's interceptor was run with, 0 if none
CauseStatus(d) == IF d.cause.response = None THEN 0 ELSE d.cause.response[1].status

\* C1: a call whose first attempt and whose retry both end without a response
\* settles there, rejected with status 0 after exactly 2 attempts; a call in
\* progress never has two failed attempts on record, so no third one follows.
C1_TwoTransportFailures ==
  /\ \A c \in Calls : Len(calls[c].outcomes) <= 1
  /\ delivered.outcomes = <<"transport", "transport">>
       => /\ delivered.attempts = 2
          /\ delivered.kind = "rejected"
          /\ delivered.error.status = 0

C1_Witness ==
  /\ delivered.call \in Calls
  /\ delivered.outcomes = <<"transport", "transport">>
  /\ delivered.attempts = 2
  /\ delivered.error.status = 0

\* C2: no logical call ever has more than 2 underlying attempts, whatever
\* the other calls do meanwhile.
C2_AtMostTwoAttempts ==
  /\ \A c \in Calls : calls[c].attempts <= 2
  /\ delivered.attempts <= 2

C2_Witness ==
  \E c, b \in Calls :
    /\ c # b
    /\ calls[c].attempts = 2 /\ calls[c].phase = "inflight"
    /\ calls[b].attempts = 2 /\ calls[b].phase = "inflight"

\* C3: an attempt that received a response is the call's last attempt: no
\* call in progress has an answered attempt on record, and the step that
\* received a failure response rejected with its status and its body after
\* as many attempts as outcomes on record, all earlier ones without response.
C3_NoRetryAfterResponse ==
  /\ \A c \in Calls : \A i \in 1..Len(calls[c].outcomes) : calls[c].outcomes[i] = "transport"
  /\ (delivered.cause.response # None
       /\ delivered.cause.response[1].status \in FailureStatuses)
       => LET o == delivered.outcomes IN
          /\ delivered.kind = "rejected"
          /\ delivered.error.status = delivered.cause.response[1].status
          /\ delivered.error.data = delivered.cause.response[1].data
          /\ delivered.attempts = Len(o)
          /\ o[Len(o)] = "http"
          /\ \A i \in 1..(Len(o) - 1) : o[i] = "transport"

C3_Witness ==
  /\ delivered.call \in Calls
  /\ delivered.outcomes = <<"http">>
  /\ delivered.attempts = 1
  /\ delivered.error.status = 500
  /\ delivered.error.data = [t |-> "object", message |-> Str("jwt expired")]

\* C4: the step in which a response with status 401 is handled leaves the
\* token, the role and the user data absent, and assigns the login location
\* (once) when the page is not at /login and not at all when it is.
C4_UnauthorizedClearsAndRedirects ==
  CauseStatus(delivered) = 401
    => /\ StoreCleared(localStorage)
       /\ pathname # LoginPath => delivered.href = Some(LoginPath)
       /\ pathname = LoginPath => delivered.href = None

C4_Witness ==
  /\ CauseStatus(delivered) = 401
  /\ StoreCleared(localStorage)
  /\ user # None
  /\ defaults # None
  /\ pathname # LoginPath
  /\ delivered.href = Some(LoginPath)

\* C5: the step in which a response with a failure status other than 401 is
\* handled changes neither the persisted store nor the location.
C5_OnlyUnauthorizedTouchesSession ==
  [][\A c \in Calls :
       (calls[c].phase = "inflight" /\ delivered'.call = c
        /\ CauseStatus(delivered') \in FailureStatuses \ {401})
         => /\ UNCHANGED <<localStorage, pathname>>
            /\ delivered'.href = None]_vars

C5_Witness ==
  /\ CauseStatus(delivered) = 403
  /\ delivered.kind = "rejected"
  /\ TokenPresent(localStorage)
  /\ localStorage.mediconnect_role # None
  /\ localStorage.mediconnect_user # None
  /\ pathname # LoginPath

\* the step dispatches an attempt of call c
Dispatches(c) == calls'[c].attempts = calls[c].attempts + 1

\* C6: an attempt dispatched while a token is persisted carries the header
\* Authorization: Bearer <the token persisted at that moment>, on the first
\* attempt and on the retry alike.
C6_BearerOfPersistedToken ==
  [][\A c \in Calls :
       (Dispatches(c) /\ TokenPresent(localStorage))
         => /\ calls'[c].phase = "inflight"
            /\ calls'[c].config.headers.Authorization
                 = Some([scheme |-> "Bearer",
                         credentials |-> localStorage.mediconnect_token[1]])]_vars

\* a call issued under one session and a call issued under the next are in
\* flight with different tokens
C6_Witness ==
  \E a, b \in Calls :
    /\ calls[a].phase = "inflight"
    /\ calls[a].config.headers.Authorization = Some(Bearer("tok1"))
    /\ calls[b].phase = "inflight"
    /\ calls[b].config.headers.Authorization = Some(Bearer("tok2"))
    /\ getToken(localStorage) = Some("tok2")

\* C7: an attempt dispatched while no token is persisted is dispatched all
\* the same and carries no Authorization header.
C7_NoTokenNoHeader ==
  [][\A c \in Calls :
       (Dispatches(c) /\ ~TokenPresent(localStorage))
         => /\ calls'[c].phase = "inflight"
            /\ calls'[c].config.headers.Authorization = None]_vars

\* C8: every rejection value has a numeric status and a string message.
C8_RejectionShape ==
  delivered.kind = "rejected"
    => /\ {"status", "message"} \subseteq delivered.error.keys
       /\ delivered.error.status \in Nat
       /\ delivered.error.message.t = "string"

\* C9: the step that ends the retried attempt of a call settles that call
\* with the retry's outcome: resolved with its response, rejected with its
\* failure status (a 401 clearing the store and assigning the login location
\* as for a first attempt), or rejected with status 0 when it had no response.
C9_RetryOutcomeIsCallOutcome ==
  [][\A c \in Calls :
       (calls[c].phase = "inflight" /\ calls[c].config.isRetry /\ calls'[c] # calls[c])
         => LET d == delivered'
                status == CauseStatus(d)
            IN /\ d.call = c
               /\ calls'[c].phase = "done"
               /\ status = 200 => d.kind = "resolved" /\ d.response = d.cause.response
               /\ status \in FailureStatuses
                    => d.kind = "rejected" /\ d.error.status = status
               /\ status = 401
                    => /\ StoreCleared(localStorage')
                       /\ d.href = IF pathname # LoginPath THEN Some(LoginPath) ELSE None
               /\ status = 0 => d.kind = "rejected" /\ d.error.status = 0]_vars

C9_Witness ==
    /\ delivered.call \in Calls
    /\ delivered.outcomes = <<"transport", "http">>
    /\ delivered.error.status = 401
    /\ StoreCleared(localStorage)
    /\ delivered.href = Some(LoginPath)

\* C10: under a transport that ends every attempt and a timer that fires,
\* every call that was issued is eventually settled: its caller is handed a
\* resolved response or a rejection with its keys.
C10_EveryCallSettles ==
  \A c \in Calls :
    (calls[c].phase \in {"inflight", "delay"})
      ~> (/\ delivered.call = c
          /\ \/ delivered.kind = "resolved" /\ delivered.response # None
             \/ delivered.kind = "rejected" /\ "status" \in delivered.error.keys)

C10_Witness ==
  /\ delivered.call \in Calls
  /\ delivered.outcomes = <<"transport", "transport">>
  /\ delivered.kind = "rejected"
  /\ \E b \in Calls : calls[b].phase = "delay"

\* C11 as stated: a rejection with status 0 comes only after two attempts
\* that both ended without a response, the second being the retry; a
\* rejection caused by a response carries that response's status, never 0.
C11_StatusZeroOnlyAfterRetry ==
  delivered.kind = "rejected"
    => /\ delivered.error.status = 0
            => /\ delivered.attempts = 2
               /\ delivered.outcomes = <<"transport", "transport">>
       /\ delivered.cause.response # None
            => /\ delivered.error.status = delivered.cause.response[1].status
               /\ delivered.error.status # 0

\* C11 (amended): a rejection with status 0 comes only when none of the
\* call's attempts received a response: either the failure carries the request
\* config, and then the retry was made and failed the same way (2 attempts),
\* or it carries none, and then the call is rejected at once without a retry
\* of that failure; a rejection caused by a response carries that response's
\* status, never 0.
C11_StatusZeroOnlyWithoutResponse ==
  delivered.kind = "rejected"
    => LET o == delivered.outcomes IN
       /\ delivered.error.status = 0
            => /\ delivered.cause.response = None
               /\ \A i \in 1..Len(o) : o[i] \in {"transport", "thrown"}
               /\ delivered.cause.hasConfig
                    => delivered.attempts = 2 /\ o = <<"transport", "transport">>
               /\ ~delivered.cause.hasConfig
                    => /\ o \in {<<"thrown">>, <<"transport", "thrown">>}
                       /\ delivered.attempts = Len(o) - 1
       /\ delivered.cause.response # None
            => /\ delivered.error.status = delivered.cause.response[1].status
               /\ delivered.error.status # 0

C11_Witness ==
  /\ delivered.call \in Calls
  /\ delivered.kind = "rejected"
  /\ delivered.error.status = 0
  /\ delivered.outcomes = <<"thrown">>
  /\ delivered.attempts = 0

\* the body is a JSON object that has a message field
MessagePresent(data) == data.t = "object" /\ data.message.t # "undefined"

\* C12 as stated: the rejection that follows a response with a failure
\* status has exactly the fields status, message and data: the response's
\* status, the body's message field if the body has one and the generic text
\* otherwise, and the whole body; the same for every status.
C12_RejectionOfResponse ==
  \A status \in FailureStatuses :
    (delivered.cause.response # None /\ delivered.cause.response[1].status = status)
      => LET data == delivered.cause.response[1].data IN
         /\ delivered.kind = "rejected"
         /\ delivered.error.keys = {"status", "message", "data"}
         /\ delivered.error.status = status
         /\ delivered.error.message
              = IF MessagePresent(data) THEN data.message ELSE Str("An error occurred")
         /\ delivered.error.data = data

\* C12 (amended): as above, with the body's message field taken only when it
\* is present and truthy (not the empty string, not 0), and the generic text
\* otherwise.
C12_RejectionOfResponseTruthy ==
  \A status \in FailureStatuses :
    (delivered.cause.response # None /\ delivered.cause.response[1].status = status)
      => LET data == delivered.cause.response[1].data IN
         /\ delivered.kind = "rejected"
         /\ delivered.error.keys = {"status", "message", "data"}
         /\ delivered.error.status = status
         /\ delivered.error.message
              = IF MessagePresent(data) /\ Truthy(data.message)
                  THEN data.message
                  ELSE Str("An error occurred")
         /\ delivered.error.data = data

\* a 401 whose body has an empty message is rejected with the generic text
C12_Witness ==
  /\ delivered.call \in Calls
  /\ delivered.cause.response # None
  /\ delivered.cause.response[1].status = 401
  /\ delivered.cause.response[1].data = [t |-> "object", message |-> Str("")]
  /\ delivered.error.status = 401
  /\ delivered.error.message = Str("An error occurred")
  /\ delivered.error.data = [t |-> "object", message |-> Str("")]

C14_FirstAttemptSuccess ==
  [][\A c \in Calls :
       (/\ calls[c].phase = "inflight"
        /\ ~calls[c].config.isRetry
        /\ delivered'.call = c
        /\ CauseStatus(delivered') = 200)
         => /\ delivered'.kind = "resolved"
            /\ delivered'.response = delivered'.cause.response
            /\ delivered'.response = Some([status |-> 200, data |-> OkBody])
            /\ delivered'.attempts = 1
            /\ delivered'.outcomes = <<"ok">>
            /\ delivered'.href = None
            /\ UNCHANGED <<localStorage, pathname>>]_vars

C14_Witness ==
  /\ delivered.call \in Calls
  /\ delivered.kind = "resolved"
  /\ delivered.outcomes = <<"ok">>
  /\ delivered.attempts = 1
  /\ getToken(localStorage) = Some("tok1")
  /\ localStorage.mediconnect_role # None
  /\ localStorage.mediconnect_user # None
  /\ pathname = "/patient-dashboard"

\* C15: in the state in which the caller of a call is handed a rejection
\* with status 401, the token, the role and the user data are already absent
\* from the persisted store, and the login location, if the page was
\* elsewhere, is already assigned.
C15_ClearedWhenRejectionObserved ==
  (delivered.kind = "rejected" /\ delivered.error.status = 401)
    => /\ getToken(localStorage) = None
       /\ getUserRole(localStorage) = None
       /\ getUserData(localStorage) = None
       /\ delivered.href = IF pathname # LoginPath THEN Some(LoginPath) ELSE None

\* the caller of a call answered 401 on the login view: cleared, no navigation
C15_Witness ==
  /\ delivered.call \in Calls
  /\ delivered.kind = "rejected"
  /\ delivered.error.status = 401
  /\ delivered.error.message = Str("jwt expired")
  /\ delivered.outcomes = <<"http">>
  /\ StoreCleared(localStorage)
  /\ pathname = LoginPath
  /\ delivered.href = None

\* C16: every step in which a call in flight is answered 401 while the page
\* is not at /login leaves the three session keys absent and the rest of the
\* store as it was, changes nothing at all when an earlier 401 had already
\* cleared the store, and assigns the login location once more, whatever the
\* other call did before.
C16_ConcurrentUnauthorized ==
  [][\A c \in Calls :
       (/\ calls[c].phase = "inflight"
        /\ delivered'.call = c
        /\ CauseStatus(delivered') = 401
        /\ pathname # LoginPath)
         => /\ StoreCleared(localStorage')
            /\ localStorage'.mediconnect_language = localStorage.mediconnect_language
            /\ StoreCleared(localStorage) => localStorage' = localStorage
            /\ delivered'.href = Some(LoginPath)
            /\ navigations' = navigations + 1]_vars

\* call 2 was issued and answered 401 while call 1 was in flight, and call 1
\* has now been answered 401 at its only attempt: two navigations
C16_Witness ==
  /\ delivered.call = 1
  /\ delivered.outcomes = <<"http">>
  /\ CauseStatus(delivered) = 401
  /\ calls[2].phase = "done"
  /\ navigations = 2
  /\ StoreCleared(localStorage)
  /\ pathname # LoginPath

\* the step dispatches the retry of call c
DispatchesRetry(c) == calls[c].phase = "delay" /\ Dispatches(c)

C18_RetryWhateverTheMethod ==
  [][\A c \in Calls :
       /\ (/\ calls[c].phase = "inflight"
           /\ calls[c].attempts = 1
           /\ calls'[c] # calls[c]
           /\ delivered'.cause.response = None)
            => /\ delivered' = NoDelivery
               /\ calls'[c].phase = "delay"
               /\ calls'[c].config = [calls[c].config EXCEPT !.isRetry = TRUE]
               /\ calls'[c].attempts = 1
       /\ (calls[c].phase = "delay" /\ calls'[c] # calls[c])
            => /\ calls'[c].phase = "inflight"
               /\ calls'[c].attempts = 2
               /\ calls'[c].config.method = calls[c].config.method
               /\ calls'[c].config.url = calls[c].config.url
               /\ calls'[c].config.data = calls[c].config.data]_vars

\* the booking is in flight for the second time
C18_Witness ==
  \E c \in Calls :
    /\ calls[c].phase = "inflight"
    /\ calls[c].attempts = 2
    /\ calls[c].outcomes = <<"transport">>
    /\ calls[c].config.method = "post"
    /\ calls[c].config.url = "/appointments/book"
    /\ calls[c].config.data = Some("payload")

\* C19: a call waits for its retry only after one attempt that ended without
\* a response, and it is marked as retried while it waits; the step that
\* starts the wait is the one that sets the mark, on a call in flight that
\* was not marked, and dispatches nothing; the second attempt is dispatched
\* only by a later step, taken from the wait, on the marked config.
C19_RetryOrder ==
  [][\A c \in Calls :
       /\ calls'[c].phase = "delay"
            => /\ calls'[c].config.isRetry
               /\ calls'[c].attempts = 1
               /\ calls'[c].outcomes = <<"transport">>
       /\ (calls'[c].phase = "delay" /\ calls[c].phase # "delay")
            => /\ calls[c].phase = "inflight"
               /\ ~calls[c].config.isRetry
               /\ calls[c].attempts = 1
               /\ ~Dispatches(c)
       /\ (Dispatches(c) /\ calls'[c].attempts >= 2)
            => /\ calls[c].phase = "delay"
               /\ calls[c].config.isRetry
               /\ calls[c].outcomes = <<"transport">>
               /\ calls'[c].attempts = 2
               /\ calls'[c].phase = "inflight"]_vars

\* one call has been dispatched again after its wait, the other still waits
C19_Witness ==
  \E c, b \in Calls :
    /\ calls[c].phase = "inflight"
    /\ calls[c].attempts = 2
    /\ calls[c].config.isRetry
    /\ calls[c].outcomes = <<"transport">>
    /\ calls[b].phase = "delay"
    /\ calls[b].attempts = 1
    /\ calls[b].config.isRetry

\* C20: a logout step leaves the token, the role and the user data absent
\* from the persisted store and the rest of the store as it was, the
\* in-memory user null and the view at /login, whatever the state before;
\* on a store that was already cleared it changes nothing in the store.
C20_LogoutDestroysSession ==
  [][Logout
       => /\ getToken(localStorage') = None
          /\ getUserRole(localStorage') = None
          /\ getUserData(localStorage') = None
          /\ localStorage'.mediconnect_language = localStorage.mediconnect_language
          /\ user' = None
          /\ pathname' = LoginPath
          /\ StoreCleared(localStorage) => localStorage' = localStorage]_vars

\* a call dispatched under a session is still in flight and the session is
\* gone from the store and from memory: the user logged out meanwhile
C20_Witness ==
  /\ ~loading
  /\ user = None
  /\ defaults = None
  /\ StoreCleared(localStorage)
  /\ pathname = LoginPath
  /\ \E c \in Calls :
       /\ calls[c].phase = "inflight"
       /\ calls[c].config.headers.Authorization = Some(Bearer("tok2"))

\* C21: a login or registration step creates the session: afterwards the
\* token, the role and the user data are all in the store, the stored role
\* is the role the user signed in with (the role of the in-memory user, whose
\* dashboard is shown) and the role inside the stored user data, and the
\* store holds this one session only: its token is the one the default
\* header now carries, whatever session the store held before.
C21_SessionCreated ==
  [][(Login \/ Register)
       => /\ TokenPresent(localStorage')
          /\ getUserRole(localStorage') # None
          /\ getUserData(localStorage') # None
          /\ user' # None
          /\ getUserRole(localStorage')[1] = user'[1].role
          /\ getUserData(localStorage')[1].role = getUserRole(localStorage')[1]
          /\ getUserData(localStorage')[1] = user'[1]
          /\ defaults' = Some(Bearer(getToken(localStorage')[1]))
          /\ pathname' = IF user'[1].role = "patient" THEN "/patient-dashboard"
                                                      ELSE "/doctor-dashboard"]_vars

\* a doctor's session made with the second token is in the store while a
\* call dispatched under the first token is still in flight: a later login
\* or registration replaced the earlier session
C21_Witness ==
  /\ ~loading
  /\ getToken(localStorage) = Some("tok2")
  /\ getUserRole(localStorage) = Some("doctor")
  /\ getUserData(localStorage) = Some(UserOf("a@x.in", "doctor"))
  /\ user = Some(UserOf("a@x.in", "doctor"))
  /\ pathname = "/doctor-dashboard"
  /\ \E c \in Calls :
       /\ calls[c].phase = "inflight"
       /\ calls[c].config.headers.Authorization = Some(Bearer("tok1"))

\* C22: every attempt that is dispatched, first attempt or retry, carries
\* the language header: the language preference persisted at that moment
\* when one is set and 'en' when none is set, with and without a token.
C22_LanguageHeader ==
  [][\A c \in Calls :
       Dispatches(c)
         => calls'[c].config.headers.AcceptLanguage =
              IF localStorage.mediconnect_language # None
                THEN localStorage.mediconnect_language
                ELSE Some("en")]_vars

\* without a token in the store, a retry is in flight with the preference
\* 'hi' that was persisted during the delay, and another call with 'en'
C22_Witness ==
  /\ ~TokenPresent(localStorage)
  /\ \E c, b \in Calls :
       /\ calls[c].phase = "inflight"
       /\ calls[c].config.isRetry
       /\ calls[c].config.headers.Authorization = None
       /\ calls[c].config.headers.AcceptLanguage = Some("hi")
       /\ calls[b].phase = "inflight"
       /\ calls[b].config.headers.AcceptLanguage = Some("en")

\* C24 as stated: once checkAuth has finished, a non-null user in the
\* AuthContext implies a token in the persisted store; stated for the states
\* in which this page has assigned no new location, which are the states a
\* 401 received on /login leaves behind.
C24_UserImpliesToken ==
  (~loading /\ user # None /\ navigations = 0) => TokenPresent(localStorage)

\* C30: checkAuth on a stored token that does not decode restores the user
\* from the stored user data when there is one, with the stored role or else
\* the role of the user data, and leaves the store with its token as it is;
\* without stored user data it logs out: the three keys are absent, the user
\* is null and the view is /login; without a token the user stays null and
\* store and view stay as they are; loading is false afterwards in all cases.
C30_CheckAuthRecovers ==
  [][CheckAuth
       => /\ loading' = FALSE
          /\ (TokenPresent(localStorage) /\ getUserData(localStorage) # None)
               => /\ user' # None
                  /\ user'[1].email = getUserData(localStorage)[1].email
                  /\ user'[1].role = IF getUserRole(localStorage) # None
                                        THEN getUserRole(localStorage)[1]
                                        ELSE getUserData(localStorage)[1].role
                  /\ localStorage' = localStorage
                  /\ TokenPresent(localStorage')
                  /\ pathname' = pathname
          /\ (TokenPresent(localStorage) /\ getUserData(localStorage) = None)
               => /\ StoreCleared(localStorage')
                  /\ user' = None
                  /\ defaults' = None
                  /\ pathname' = LoginPath
          /\ ~TokenPresent(localStorage)
               => /\ user' = None
                  /\ localStorage' = localStorage
                  /\ pathname' = pathname]_vars

\* the user was restored from a store that holds a token and user data but
\* no role: the role is the one inside the user data
C30_Witness ==
  /\ ~loading
  /\ TokenPresent(localStorage)
  /\ getUserRole(localStorage) = None
  /\ user = Some(UserOf("a@x.in", "doctor"))
  /\ defaults = Some(Bearer(getToken(localStorage)[1]))

\* C23 as stated: once the token, the role and the user data are absent from
\* the store, after a logout or a 401, only a login or a registration step
\* makes any of them present again, whatever the calls in flight do; a
\* profile save that settles afterwards does not.
C23_ClearedUntilNextSession ==
  [][(StoreCleared(localStorage) /\ ~StoreCleared(localStorage'))
       => (Login \/ Register)]_vars

\* a login submission with this email and role passes the check of the page
LoginAccepted(ls, email, r) ==
  /\ getUserData(ls) # None
  /\ getUserData(ls)[1].email = email
  /\ getUserData(ls)[1].role = r

\* C25 as stated: a login step happens only on stored user data with the
\* email and the role of the session it creates; a refused submission shows
\* the error and leaves the store, the user and the view as they are; and
\* once no submission passes the check, as after a logout or a 401, only a
\* registration makes one pass again.
C25_LoginNeedsRegistration ==
  [][/\ Login => /\ user' # None
                 /\ LoginAccepted(localStorage, user'[1].email, user'[1].role)
     /\ LoginRefused => /\ loginError'
                        /\ UNCHANGED <<localStorage, user, pathname, navigations>>
     /\ ((\A email \in SubmittedEmails, r \in Roles :
             ~LoginAccepted(localStorage, email, r))
         /\ (\E email \in SubmittedEmails, r \in Roles :
               LoginAccepted(localStorage', email, r)))
          => Register]_vars

\* C26: the wizard never sends an analysis request with an empty symptom
\* list, also after symptoms were removed on step 2, and never goes from
\* step 1 to step 2 with an empty selection, whatever the user presses.
C26_NoEmptyAnalysis ==
  [][/\ \A a \in Analyses :
          (wizard.analyses[a].phase = "idle" /\ wizard'.analyses[a].phase # "idle")
            => /\ wizard'.analyses[a].symptoms # {}
               /\ wizard'.analyses[a].symptoms = wizard.selectedSymptoms
     /\ (wizard.step = 1 /\ wizard'.step = 2)
          => wizard.selectedSymptoms # {}]_vars

\* the wizard is on step 2 with every symptom removed and the button
\* enabled; the one request it has sent carried the symptom selected then
C26_Witness ==
  /\ wizard.step = 2
  /\ wizard.selectedSymptoms = {}
  /\ ~wizard.isAnalyzing
  /\ wizard.analyses[1] = [phase |-> "fallback", symptoms |-> {"fever"}]
  /\ wizard.analyses[2].phase = "idle"

\* the analysis started last
LatestAnalysis(w) ==
  CHOOSE a \in Analyses :
    /\ w.analyses[a].phase # "idle"
    /\ \A b \in Analyses : b > a => w.analyses[b].phase = "idle"

\* C27 as stated: after Back or New check the wizard stays on steps 1-2, and
\* after New check without a result, until Analyze is pressed again; on
\* step 3 the result shown is the outcome of the analysis started last.
C27_StepThreeOnlyAfterAnalyze ==
  /\ wizard.pressed \in {"back", "newcheck"} => wizard.step \in {1, 2}
  /\ wizard.pressed = "newcheck" => wizard.analysisResult = None
  /\ wizard.step = 3
       => /\ wizard.analysisResult # None
          /\ wizard.analysisResult[1].analysis = LatestAnalysis(wizard)

\* the analysis has been sent or waits for its delayed fallback result
PendingAnalysis(w, a) == w.analyses[a].phase \in {"request", "fallback"}

\* C28 as stated: while an analysis is pending, from Analyze until its
\* result is shown, also while the delayed fallback waits, isAnalyzing is
\* true; at most one analysis is pending at any time.
C28_AnalyzingWhilePending ==
  /\ (\E a \in Analyses : PendingAnalysis(wizard, a)) => wizard.isAnalyzing
  /\ Cardinality({a \in Analyses : PendingAnalysis(wizard, a)}) <= 1

\* C29 as stated: the ids of the messages in the list are pairwise distinct,
\* whatever the order of sendMessage calls and of their answers.
C29_DistinctMessageIds ==
  \A i, j \in DOMAIN chat.messages :
    i # j => chat.messages[i].id # chat.messages[j].id

====
